---- MODULE Spec2Model ----
(***************************************************************************)
(* Feature-value columns (NCB::IFeatureValuesHolder and its concrete       *)
(* holders) and the balanced-accuracy metric of catboost.                  *)
(*                                                                         *)
(* A column is constructed once from (featureId, srcData, subsetIndexing)  *)
(* and then read through const accessors.  The subset indexing, the        *)
(* compressed array and the parallel extraction helper live in             *)
(* catboost/libs/helpers; they are modelled here by their contracts.       *)
(* Pointers are modelled by what they point at: the subset-indexing        *)
(* pointer is either nullptr or the (immutable, caller-owned) indexing it  *)
(* refers to, which outlives the column.                                   *)
(***************************************************************************)
EXTENDS Integers, Sequences, FiniteSets, TLC

VARIABLES
    phase,      \* "unconstructed" | "constructed" | "threw" | "crashed"
    args,       \* the constructor's arguments, as the caller passed them
    obj,        \* the column object: its fields
    viewRead,   \* the constructor dereferenced subsetIndexing
    ret,        \* what the last completed call returned to its caller
    ext,        \* ParallelExtractValues in flight: block tasks and dst
    error,      \* TMetricHolder: Stats[0..3]
    metric      \* CalcBalancedAccuracyMetric(error), once computed

colVars == <<phase, args, obj, viewRead, ret, ext>>
metricVars == <<error, metric>>
vars == <<phase, args, obj, viewRead, ret, ext, error, metric>>

(***************************************************************************)
(* Bounds of the model.                                                    *)
(***************************************************************************)
\* longest physical array handed to a constructor
MaxLen == 5
\* largest feature id
MaxFeatureId == 1
\* most blocks the executor splits an extraction into
MaxBlocks == 2

Min(a, b) == IF a < b THEN a ELSE b

nullptr == [kind |-> "nullptr"]

(***************************************************************************)
(* EFeatureValuesType and the value types of the quantized interfaces.     *)
(***************************************************************************)
EFeatureValuesType ==
    {"Float", "QuantizedFloat", "HashedCategorical", "PerfectHashedCategorical"}

ArrayTypes == {"Float", "HashedCategorical"}
CompressedTypes == {"QuantizedFloat", "PerfectHashedCategorical"}

\* IQuantizedFloatValuesHolder::TValueType, IQuantizedCatValuesHolder::TValueType
TValueType(TType) == IF TType = "QuantizedFloat" THEN "ui8" ELSE "ui32"

ValueTypes == {"ui8", "ui16", "ui32"}

\* sizeof(T) * CHAR_BIT
SizeofBits(T) == CASE T = "ui8" -> 8 [] T = "ui16" -> 16 [] T = "ui32" -> 32

(***************************************************************************)
(* TArraySubsetIndexing<ui32>: a full subset, ranges of the source, or an  *)
(* explicit index vector.  Logical and physical indices are 0-based.       *)
(***************************************************************************)
FullSubset(n) == [kind |-> "Full", Size |-> n]
RangesSubset(blocks) == [kind |-> "Ranges", Blocks |-> blocks]
IndexedSubset(indices) == [kind |-> "Indexed", Indices |-> indices]

RECURSIVE BlocksSize(_)
BlocksSize(blocks) ==
    IF blocks = <<>> THEN 0
    ELSE (Head(blocks).SrcEnd - Head(blocks).SrcBegin) + BlocksSize(Tail(blocks))

\* TArraySubsetIndexing::Size()
SubsetSize(s) ==
    CASE s.kind = "Full" -> s.Size
      [] s.kind = "Ranges" -> BlocksSize(s.Blocks)
      [] s.kind = "Indexed" -> Len(s.Indices)

RECURSIVE BlocksPosition(_, _)
BlocksPosition(blocks, i) ==
    LET n == Head(blocks).SrcEnd - Head(blocks).SrcBegin
    IN  IF i < n THEN Head(blocks).SrcBegin + i
        ELSE BlocksPosition(Tail(blocks), i - n)

\* the physical position the subset assigns to logical index i
PositionOf(s, i) ==
    CASE s.kind = "Full" -> i
      [] s.kind = "Ranges" -> BlocksPosition(s.Blocks, i)
      [] s.kind = "Indexed" -> s.Indices[i + 1]

\* the subsets a caller binds to a source of n elements: identity, a
\* permutation (reversal), disjoint blocks in swapped order, a strict subset
Subsets(n) ==
    {FullSubset(n),
     IndexedSubset([i \in 1..n |-> n - i]),
     IndexedSubset(<<n - 1>>)}
    \cup (IF n >= 2
          THEN {RangesSubset(<<[SrcBegin |-> n - 1, SrcEnd |-> n],
                               [SrcBegin |-> 0, SrcEnd |-> 1]>>)}
          ELSE {})

(***************************************************************************)
(* TCompressedArray: keys of BitsPerKey bits packed into 64-bit words,     *)
(* EntriesPerType keys per word.  A word is kept as its 8 bytes in memory  *)
(* order (little-endian), so that the raw pointer can be read bytewise.    *)
(***************************************************************************)
WordBits == 64
ByteBits == 8

BitsPerKeySet == {1, 2, 4, 8, 16}

EntriesPerType(b) == WordBits \div b

RECURSIVE BitsToNat(_)
\* the number whose binary digits, least significant first, are bits
BitsToNat(bits) ==
    IF bits = <<>> THEN 0 ELSE Head(bits) + 2 * BitsToNat(Tail(bits))

BitOf(x, j) == (x \div (2 ^ j)) % 2

\* bit j of word w of the packed keys
PackedBit(keys, b, w, j) ==
    LET e == j \div b
        idx == w * EntriesPerType(b) + e
    IN  IF e < EntriesPerType(b) /\ idx < Len(keys)
        THEN BitOf(keys[idx + 1], j % b)
        ELSE 0

\* CompressVector: keys packed at b bits per key
CompressVector(keys, b) ==
    LET nWords == (Len(keys) + EntriesPerType(b) - 1) \div EntriesPerType(b)
    IN  [Size |-> Len(keys),
         BitsPerKey |-> b,
         Storage |->
            [w \in 1..nWords |->
                [k \in 1..(WordBits \div ByteBits) |->
                    BitsToNat([t \in 1..ByteBits |->
                        PackedBit(keys, b, w - 1, ByteBits * (k - 1) + t - 1)])]]]

\* bit s of a stored word
WordBit(word, s) == BitOf(word[(s \div ByteBits) + 1], s % ByteBits)

\* a value converted to the unsigned type T: its low SizeofBits(T) bits
CastTo(T, bits) == BitsToNat(SubSeq(bits, 1, Min(Len(bits), SizeofBits(T))))

\* TCompressedArray::operator[]<T>: (Storage[offset] >> shift) & mask
CompressedAt(ca, T, index) ==
    LET offset == index \div EntriesPerType(ca.BitsPerKey)
        shift == (index % EntriesPerType(ca.BitsPerKey)) * ca.BitsPerKey
        word == ca.Storage[offset + 1]
    IN  CastTo(T, [j \in 1..ca.BitsPerKey |-> WordBit(word, shift + j - 1)])

RECURSIVE Flatten(_)
Flatten(words) ==
    IF words = <<>> THEN <<>> ELSE Head(words) \o Flatten(Tail(words))

\* TCompressedArray::GetRawPtr(): the address of the packed buffer
StoragePtr == "&SrcData.Storage[0]"
GetRawPtr(ca) == StoragePtr

\* the bytes a pointer held by column o points at
Deref(o, ptr) == IF ptr = StoragePtr THEN Flatten(o.SrcData.Storage) ELSE <<>>

RECURSIVE BytesToNat(_)
\* the number whose bytes, least significant first, are bytes
BytesToNat(bytes) ==
    IF bytes = <<>> THEN 0 ELSE Head(bytes) + 256 * BytesToNat(Tail(bytes))

\* ((const T*)mem)[p] on a little-endian machine
ReadAs(T, mem, p) ==
    LET s == SizeofBits(T) \div ByteBits
    IN  BytesToNat(SubSeq(mem, p * s + 1, p * s + s))

Ok(v) == [ok |-> TRUE, val |-> v]
Fail(msg) == [ok |-> FALSE, what |-> msg]

\* TCompressedArray::CheckIfCanBeInterpretedAsRawArray<T>()
CheckIfCanBeInterpretedAsRawArray(ca, T) == ca.BitsPerKey = SizeofBits(T)

\* TArraySubset<TSrc, ui32>(src, subsetIndexing): a source pointer and an indexing
TArraySubset(src, subsetIndexing) ==
    IF subsetIndexing = nullptr
    THEN Fail("subsetIndexing argument is nullptr")
    ELSE Ok([Src |-> src, SubsetIndexing |-> subsetIndexing])

\* TArraySubset<const T*, ui32>(src, subsetIndexing)
TConstPtrArraySubset(T, src, subsetIndexing) ==
    IF subsetIndexing = nullptr
    THEN Fail("subsetIndexing argument is nullptr")
    ELSE Ok([Src |-> src, As |-> T, SubsetIndexing |-> subsetIndexing])

(***************************************************************************)
(* The column objects.                                                     *)
(***************************************************************************)
NoObject == [cls |-> "none"]
NoArgs == [cls |-> "none"]
NoRet == [op |-> "none"]
NoExt == [state |-> "idle"]

\* a constructor that takes the size from the source array
TArrayValuesHolder_SizeOfSource(TType, featureId, srcData, subsetIndexing, sizeRead) ==
    [cls |-> "TArrayValuesHolder",
     Type |-> TType,
     FeatureId |-> featureId,
     Size |-> Len(srcData),
     SrcData |-> srcData,
     SubsetIndexing |-> subsetIndexing]

\* TArrayValuesHolder<T, TType>: the object its constructor initialises, where
\* sizeRead is what subsetIndexing->Size() returned
TArrayValuesHolder(TType, featureId, srcData, subsetIndexing, sizeRead) ==
    [cls |-> "TArrayValuesHolder",
     Type |-> TType,
     FeatureId |-> featureId,
     Size |-> sizeRead,
     SrcData |-> srcData,
     SubsetIndexing |-> subsetIndexing]

\* TCompressedValuesHolderImpl<TBase>: the object its constructor initialises;
\* TBase(featureId, size) fixes the kind
TCompressedValuesHolderImpl(TType, featureId, srcData, subsetIndexing, sizeRead) ==
    [cls |-> "TCompressedValuesHolderImpl",
     Type |-> TType,
     FeatureId |-> featureId,
     Size |-> sizeRead,
     SrcData |-> srcData,
     SrcDataRawPtr |-> GetRawPtr(srcData),
     SubsetIndexing |-> subsetIndexing]

\* IFeatureValuesHolder accessors
GetType(o) == o.Type
GetSize(o) == o.Size
GetId(o) == o.FeatureId

\* a GetArrayData that views the whole source in storage order
TArrayValuesHolder_GetArrayData_Unindexed(o) ==
    TArraySubset("&SrcData", FullSubset(Len(o.SrcData)))

\* TArrayValuesHolder::GetArrayData
TArrayValuesHolder_GetArrayData(o) == TArraySubset("&SrcData", o.SubsetIndexing)

\* a GetCompressedData that views the whole packed array in storage order
GetCompressedData_Unindexed(o) == TArraySubset("&SrcData", FullSubset(o.SrcData.Size))

\* TCompressedValuesHolderImpl::GetCompressedData
GetCompressedData(o) == TArraySubset("&SrcData", o.SubsetIndexing)

\* a GetArrayData<T> without the width check
GetArrayData_Unchecked(o, T) ==
    TConstPtrArraySubset(T, "&SrcDataRawPtr", o.SubsetIndexing)

\* a GetArrayData<T> that views the buffer in storage order
GetArrayData_Unindexed(o, T) ==
    IF ~CheckIfCanBeInterpretedAsRawArray(o.SrcData, T)
    THEN Fail("Can't interpret TCompressedArray's data as raw array")
    ELSE TConstPtrArraySubset(T, "&SrcDataRawPtr", FullSubset(o.Size))

\* TCompressedValuesHolderImpl::GetArrayData<T>
TCompressedValuesHolderImpl_GetArrayData(o, T) ==
    IF ~CheckIfCanBeInterpretedAsRawArray(o.SrcData, T)
    THEN Fail("Can't interpret TCompressedArray's data as raw array")
    ELSE TConstPtrArraySubset(T, "&SrcDataRawPtr", o.SubsetIndexing)

\* TCompressedValuesHolderImpl::GetBitsPerKey
GetBitsPerKey(o) == o.SrcData.BitsPerKey

\* element i of a subset view of column o: (*Src)[position of i]
SubsetAt(o, view, i) ==
    LET p == PositionOf(view.SubsetIndexing, i)
    IN  IF view.Src = "&SrcDataRawPtr"
        THEN ReadAs(view.As, Deref(o, o.SrcDataRawPtr), p)
        ELSE o.SrcData[p + 1]

(***************************************************************************)
(* Construction.  The mem-initialisers run first, and the first of them    *)
(* calls subsetIndexing->Size(); CB_ENSURE(SubsetIndexing) is the body of  *)
(* the constructor.  With a null pointer the call is undefined behaviour:  *)
(* the process faults at the read, or the read yields some number and the  *)
(* check then throws, or the build has dropped the check (the pointer was  *)
(* already dereferenced) and the object is constructed.                    *)
(***************************************************************************)
Lens == (MaxLen - 1)..MaxLen

\* raw values (10.5, 20.5, ... in tenths) a caller ingests
ArraySamples(n) == {[i \in 1..n |-> 100 * i + 5], [i \in 1..n |-> 7]}

\* keys below 2^b a caller packs: 1, 2, 3, 0, ... and max, max - 1, ...
KeySamples(b, n) ==
    {[i \in 1..n |-> i % (2 ^ b)],
     [i \in 1..n |-> (2 ^ b) - 1 - ((i - 1) % (2 ^ b))]}

ArrayArgs ==
    UNION {[cls : {"TArrayValuesHolder"},
            TType : ArrayTypes,
            featureId : 0..MaxFeatureId,
            srcData : ArraySamples(n),
            subsetIndexing : Subsets(n) \cup {nullptr}] : n \in Lens}

CompressedArgs ==
    UNION {{[cls |-> "TCompressedValuesHolderImpl",
             TType |-> t,
             featureId |-> f,
             keys |-> keys,
             srcData |-> CompressVector(keys, b),
             subsetIndexing |-> s] :
               t \in CompressedTypes, f \in 0..MaxFeatureId,
               keys \in KeySamples(b, n), s \in Subsets(n) \cup {nullptr}} :
           b \in BitsPerKeySet, n \in Lens}

\* the object the constructor of a.cls initialises from a
New(a, sizeRead) ==
    IF a.cls = "TArrayValuesHolder"
    THEN TArrayValuesHolder(a.TType, a.featureId, a.srcData, a.subsetIndexing, sizeRead)
    ELSE TCompressedValuesHolderImpl(a.TType, a.featureId, a.srcData, a.subsetIndexing,
                                     sizeRead)

Construct(a) ==
    /\ phase = "unconstructed"
    /\ args' = a
    /\ viewRead' = TRUE
    /\ UNCHANGED <<ext, error, metric>>
    /\ IF a.subsetIndexing # nullptr
       THEN /\ phase' = "constructed"
            /\ obj' = New(a, SubsetSize(a.subsetIndexing))
            /\ ret' = [op |-> "constructor", res |-> Ok(a.cls)]
       ELSE \/ /\ phase' = "crashed"
               /\ UNCHANGED <<obj, ret>>
            \/ /\ phase' = "threw"
               /\ obj' = obj
               /\ ret' = [op |-> "constructor", res |-> Fail("subsetIndexing is empty")]
            \/ \E garbage \in 0..MaxLen :
                 /\ phase' = "constructed"
                 /\ obj' = New(a, garbage)
                 /\ ret' = [op |-> "constructor", res |-> Ok(a.cls)]

ConstructArrayValuesHolder == \E a \in ArrayArgs : Construct(a)

ConstructCompressedValuesHolder ==
    \E a \in CompressedArgs : Construct(a)

(***************************************************************************)
(* Accessor calls, from any thread, at any time after construction.        *)
(***************************************************************************)
Returns(cls, r) ==
    /\ phase = "constructed"
    /\ obj.cls \in cls
    /\ ret' = r
    /\ UNCHANGED <<phase, args, obj, viewRead, ext, error, metric>>

AnyColumn == {"TArrayValuesHolder", "TCompressedValuesHolderImpl"}

CallGetType == Returns(AnyColumn, [op |-> "GetType", res |-> Ok(GetType(obj))])
CallGetSize == Returns(AnyColumn, [op |-> "GetSize", res |-> Ok(GetSize(obj))])
CallGetId == Returns(AnyColumn, [op |-> "GetId", res |-> Ok(GetId(obj))])

CallArrayGetArrayData ==
    Returns({"TArrayValuesHolder"},
            [op |-> "GetArrayData", res |-> TArrayValuesHolder_GetArrayData(obj)])

CallGetCompressedData ==
    Returns({"TCompressedValuesHolderImpl"},
            [op |-> "GetCompressedData", res |-> GetCompressedData(obj)])

CallCompressedGetArrayData ==
    \E T \in ValueTypes :
        Returns({"TCompressedValuesHolderImpl"},
                [op |-> "GetArrayData<T>", T |-> T,
                 res |-> TCompressedValuesHolderImpl_GetArrayData(obj, T)])

CallGetBitsPerKey ==
    Returns({"TCompressedValuesHolderImpl"},
            [op |-> "GetBitsPerKey", res |-> Ok(GetBitsPerKey(obj))])

(***************************************************************************)
(* Full extraction.  ExtractValuesT<T> hands GetCompressedData() and the   *)
(* executor to ParallelExtractValues<T>, which sizes dst to the subset     *)
(* (without initialising it), splits the logical range into blocks, and    *)
(* runs one task per block on the executor, in any order.                  *)
(***************************************************************************)
\* what an element of dst holds before a task writes it
Uninitialized == -1

\* the executor's blocks of the logical range [0, n)
BlockRanges(n, k) ==
    LET blockSize == (n + k - 1) \div k
    IN  [j \in 1..k |-> [begin |-> Min((j - 1) * blockSize, n),
                         end |-> Min(j * blockSize, n)]]

\* a task that stores at the index within its own block
DstIndex_BlockLocal(range, i) == i - range.begin

\* where a block's task stores the value of logical index i
DstIndex(range, i) == i

\* the value a task decodes for logical index i of subset view sub of column o
DecodedAt(o, sub, T, i) == CompressedAt(o.SrcData, T, PositionOf(sub.SubsetIndexing, i))

\* ParallelExtractValues<T>(arraySubset, localExecutor) starting: k is the
\* number of blocks the executor's thread count gives
ParallelExtractValues(T, sub, k) ==
    LET n == SubsetSize(sub.SubsetIndexing)
    IN  [state |-> "running", T |-> T, k |-> k, src |-> sub,
         ranges |-> BlockRanges(n, k),
         next |-> [j \in 1..k |-> BlockRanges(n, k)[j].begin],
         dst |-> [i \in 1..n |-> Uninitialized]]

\* an ExtractValuesT<T> that resets the column's cached raw pointer
ExtractValuesT_ResetsRawPtr(T, k) ==
    /\ phase = "constructed"
    /\ obj.cls = "TCompressedValuesHolderImpl"
    /\ ext.state = "idle"
    /\ obj' = [obj EXCEPT !.SrcDataRawPtr = "(void*)nullptr"]
    /\ UNCHANGED <<phase, args, viewRead, error, metric>>
    /\ LET sub == GetCompressedData(obj)
       IN  IF sub.ok
           THEN /\ ext' = ParallelExtractValues(T, sub.val, k)
                /\ ret' = ret
           ELSE /\ ret' = [op |-> "ExtractValuesT", T |-> T, res |-> sub]
                /\ ext' = ext

\* TCompressedValuesHolderImpl::ExtractValuesT<T>(localExecutor)
ExtractValuesT(T, k) ==
    /\ phase = "constructed"
    /\ obj.cls = "TCompressedValuesHolderImpl"
    /\ ext.state = "idle"
    /\ UNCHANGED <<phase, args, obj, viewRead, error, metric>>
    /\ LET sub == GetCompressedData(obj)
       IN  IF sub.ok
           THEN /\ ext' = ParallelExtractValues(T, sub.val, k)
                /\ ret' = ret
           ELSE /\ ret' = [op |-> "ExtractValuesT", T |-> T, res |-> sub]
                /\ ext' = ext

CallExtractValuesT == \E T \in ValueTypes, k \in 1..MaxBlocks : ExtractValuesT(T, k)

\* TCompressedValuesHolderImpl::ExtractValues(localExecutor), the virtual
\* one-shot extraction at the interface's value type
CallExtractValues == \E k \in 1..MaxBlocks : ExtractValuesT(TValueType(obj.Type), k)

\* one step of block j's task: decode the next key of the block into dst
BlockTask(j) ==
    /\ ext.state = "running"
    /\ j \in 1..ext.k
    /\ ext.next[j] < ext.ranges[j].end
    /\ LET i == ext.next[j]
       IN  ext' = [ext EXCEPT
                     !.dst[DstIndex(ext.ranges[j], i) + 1] =
                         DecodedAt(obj, ext.src, ext.T, i),
                     !.next[j] = i + 1]
    /\ UNCHANGED <<phase, args, obj, viewRead, ret, error, metric>>

RunBlockTask == \E j \in 1..MaxBlocks : BlockTask(j)

\* every block's task has finished: dst is returned, owned by the caller
ExtractReturn ==
    /\ ext.state = "running"
    /\ \A j \in 1..ext.k : ext.next[j] = ext.ranges[j].end
    /\ ext' = [ext EXCEPT !.state = "done"]
    /\ UNCHANGED <<phase, args, obj, viewRead, ret, error, metric>>

\* the caller drops the extracted array
ExtractRelease ==
    /\ ext.state = "done"
    /\ ext' = NoExt
    /\ UNCHANGED <<phase, args, obj, viewRead, ret, error, metric>>

(***************************************************************************)
(* Balanced accuracy.  A double is modelled as a binary floating-point     *)
(* number with MantissaBits bits of precision (a double has 53) and an     *)
(* unbounded exponent, every operation rounded to nearest, ties to even.   *)
(* A value is kept as the exact fraction n/d in lowest terms; d = 0 is     *)
(* the result of a division by zero.                                       *)
(***************************************************************************)
\* bits of precision of the modelled floating-point format
MantissaBits == 3
\* largest statistic (a weighted count) a record holds
MaxStat == 8

RECURSIVE Gcd(_, _)
Gcd(a, b) == IF b = 0 THEN a ELSE Gcd(b, a % b)

Frac(n, d) == [n |-> n \div Gcd(n, d), d |-> d \div Gcd(n, d)]

NaN == [n |-> 0, d |-> 0]
IsNumber(x) == x.d # 0

RECURSIVE RoundScaled(_, _, _, _)
\* (n/d) * (up/down) = the value to round; n/d is brought into
\* [2^(MantissaBits-1), 2^MantissaBits) and rounded to an integer there
RoundScaled(n, d, up, down) ==
    IF n >= d * (2 ^ MantissaBits) THEN RoundScaled(n, 2 * d, 2 * up, down)
    ELSE IF n < d * (2 ^ (MantissaBits - 1)) THEN RoundScaled(2 * n, d, up, 2 * down)
    ELSE LET q == n \div d
             r == n % d
             m == IF 2 * r > d \/ (2 * r = d /\ q % 2 = 1) THEN q + 1 ELSE q
         IN  Frac(m * up, down)

\* the floating-point number nearest to n/d >= 0, ties to even
RoundNearestEven(n, d) == IF n = 0 THEN Frac(0, 1) ELSE RoundScaled(n, d, 1, 1)

FromInt(k) == RoundNearestEven(k, 1)

\* double operator/
FDiv(x, y) ==
    IF ~IsNumber(x) \/ ~IsNumber(y) \/ y.n = 0 THEN NaN
    ELSE RoundNearestEven(x.n * y.d, x.d * y.n)

\* double operator+
FAdd(x, y) ==
    IF ~IsNumber(x) \/ ~IsNumber(y) THEN NaN
    ELSE RoundNearestEven(x.n * y.d + y.n * x.d, x.d * y.d)

\* double operator> and operator==
FGreater(x, y) == IsNumber(x) /\ IsNumber(y) /\ x.n * y.d > y.n * x.d
FEqual(x, y) == IsNumber(x) /\ IsNumber(y) /\ x.n * y.d = y.n * x.d
FLessEq(x, y) == IsNumber(x) /\ IsNumber(y) /\ x.n * y.d <= y.n * x.d

\* the statistics a record can hold: the representable weighted counts
StatValues == {FromInt(k) : k \in {j \in 0..MaxStat : FromInt(j) = Frac(j, 1)}}

\* TMetricHolder metric(4)
NoStats == <<FromInt(0), FromInt(0), FromInt(0), FromInt(0)>>
NoMetric == [n |-> -1, d |-> 1]

\* Stats[0] == truePositive, Stats[1] == targetPositive,
\* Stats[2] == trueNegative, Stats[3] == targetNegative, as GetPositiveStats
\* and GetSpecificity sum them: the true counts are parts of the class totals
StatsRecords ==
    {<<tp, p, tn, n>> : tp \in StatValues, p \in StatValues,
                        tn \in StatValues, n \in StatValues}

\* CalcBalancedAccuracyMetric(approx, target, weight, begin, end, positiveClass, border)
CalcBalancedAccuracyStats ==
    /\ error = NoStats
    /\ metric = NoMetric
    /\ \E s \in StatsRecords :
         /\ FLessEq(s[1], s[2])
         /\ FLessEq(s[3], s[4])
         /\ error' = s
    /\ UNCHANGED <<metric, phase, args, obj, viewRead, ret, ext>>

\* a CalcBalancedAccuracyMetric that divides without looking at the totals
CalcBalancedAccuracyMetric_Unguarded(e) ==
    LET sensitivity == FDiv(e[1], e[2])
        specificity == FDiv(e[3], e[4])
    IN  IF FEqual(e[1], e[2]) /\ FEqual(e[3], e[4])
        THEN FromInt(1)
        ELSE FDiv(FAdd(sensitivity, specificity), FromInt(2))

\* double CalcBalancedAccuracyMetric(const TMetricHolder& error)
CalcBalancedAccuracyMetric(e) ==
    LET sensitivity == IF FGreater(e[2], FromInt(0)) THEN FDiv(e[1], e[2]) ELSE FromInt(0)
        specificity == IF FGreater(e[4], FromInt(0)) THEN FDiv(e[3], e[4]) ELSE FromInt(0)
    IN  IF FEqual(e[1], e[2]) /\ FEqual(e[3], e[4])
        THEN FromInt(1)
        ELSE FDiv(FAdd(sensitivity, specificity), FromInt(2))

\* the final metric value is computed from the accumulated record
CalcFinalMetric ==
    /\ metric = NoMetric
    /\ metric' = CalcBalancedAccuracyMetric(error)
    /\ UNCHANGED <<error, phase, args, obj, viewRead, ret, ext>>

\* the next evaluation starts from a fresh record
ResetMetric ==
    /\ metric # NoMetric
    /\ error' = NoStats
    /\ metric' = NoMetric
    /\ UNCHANGED <<phase, args, obj, viewRead, ret, ext>>

MetricNext ==
    \/ CalcBalancedAccuracyStats
    \/ CalcFinalMetric
    \/ ResetMetric

(***************************************************************************)
(* The columns' specification.                                             *)
(***************************************************************************)
ColInit ==
    /\ phase = "unconstructed"
    /\ args = NoArgs
    /\ obj = NoObject
    /\ viewRead = FALSE
    /\ ret = NoRet
    /\ ext = NoExt

Init ==
    /\ ColInit
    /\ error = NoStats
    /\ metric = NoMetric

Next ==
    \/ ConstructArrayValuesHolder
    \/ ConstructCompressedValuesHolder
    \/ CallGetType
    \/ CallGetSize
    \/ CallGetId
    \/ CallArrayGetArrayData
    \/ CallGetCompressedData
    \/ CallCompressedGetArrayData
    \/ CallGetBitsPerKey
    \/ CallExtractValuesT
    \/ CallExtractValues
    \/ RunBlockTask
    \/ ExtractReturn
    \/ ExtractRelease

Spec == Init /\ [][Next]_vars

\* the metric's specification
SpecMetric == Init /\ [][MetricNext]_vars

(***************************************************************************)
(* The claims.                                                             *)
(***************************************************************************)
Constructed == phase = "constructed"
Bound == Constructed /\ args.subsetIndexing # nullptr

\* C1: a construction with a null subset view ends in the 'subsetIndexing is
\* empty' failure, before the subset view is read and with no object left to
\* call an accessor on.
C1_NullViewFailsFast ==
    (phase # "unconstructed" /\ args.subsetIndexing = nullptr) =>
        /\ phase = "threw"
        /\ ret = [op |-> "constructor", res |-> Fail("subsetIndexing is empty")]
        /\ ~viewRead

\* C2: GetArrayData<T>() on a compressed column whose bits per key differ from
\* the width of T returns no view: the call fails.
C2_MismatchedWidthFails ==
    (Constructed /\ ret.op = "GetArrayData<T>"
        /\ SizeofBits(ret.T) # GetBitsPerKey(obj)) => ~ret.res.ok

C2_Witness ==
    /\ Bound
    /\ ret.op = "GetArrayData<T>"
    /\ ret.T = "ui8"
    /\ GetBitsPerKey(obj) = 2
    /\ ~ret.res.ok

\* C3: the view GetArrayData() of a raw column returns has the subset's
\* logical length, and its element i is A[P[i]]; with the identity subset
\* that is A[i].
C3_RawValuesFollowSubset ==
    (Bound /\ ret.op = "GetArrayData") =>
        /\ ret.res.ok
        /\ SubsetSize(ret.res.val.SubsetIndexing) = SubsetSize(args.subsetIndexing)
        /\ \A i \in 0..(SubsetSize(args.subsetIndexing) - 1) :
              /\ SubsetAt(obj, ret.res.val, i) =
                    args.srcData[PositionOf(args.subsetIndexing, i) + 1]
              /\ args.subsetIndexing.kind = "Full" =>
                    SubsetAt(obj, ret.res.val, i) = args.srcData[i + 1]

C3_Witness ==
    /\ Bound
    /\ ret.op = "GetArrayData"
    /\ ret.res.ok
    /\ args.subsetIndexing.kind = "Indexed"
    /\ SubsetSize(args.subsetIndexing) = Len(args.srcData)
    /\ SubsetAt(obj, ret.res.val, 0) = args.srcData[Len(args.srcData)]
    /\ args.srcData[1] # args.srcData[Len(args.srcData)]

\* C4: for T at least as wide as the packing, the array ExtractValuesT<T>()
\* returns has length GetSize(), and its element i is the key that was packed
\* at the position the subset assigns to i; with the identity subset it is
\* the packed sequence itself.
C4_ExtractRoundTrip ==
    (Constructed /\ ext.state = "done"
        /\ SizeofBits(ext.T) >= args.srcData.BitsPerKey) =>
        /\ Len(ext.dst) = GetSize(obj)
        /\ \A i \in 0..(GetSize(obj) - 1) :
              ext.dst[i + 1] = args.keys[PositionOf(args.subsetIndexing, i) + 1]
        /\ args.subsetIndexing.kind = "Full" => ext.dst = args.keys

C4_Witness ==
    /\ Constructed
    /\ ext.state = "done"
    /\ ext.T = "ui8"
    /\ args.srcData.BitsPerKey = 2
    /\ args.subsetIndexing.kind = "Full"
    /\ args.keys = <<1, 2, 3, 0>>
    /\ ext.dst = <<1, 2, 3, 0>>

RECURSIVE RunBlock(_, _, _, _, _, _)
\* a block's task run alone from logical index i to the block's end
RunBlock(o, sub, T, range, i, dst) ==
    IF i >= range.end THEN dst
    ELSE RunBlock(o, sub, T, range, i + 1,
                  [dst EXCEPT ![DstIndex(range, i) + 1] = DecodedAt(o, sub, T, i)])

\* the extraction with one block
OneBlockExtract(o, sub, T) ==
    LET n == SubsetSize(sub.SubsetIndexing)
        range == BlockRanges(n, 1)[1]
    IN  RunBlock(o, sub, T, range, range.begin, [i \in 1..n |-> Uninitialized])

\* C5: whatever the number of blocks and the order their tasks run in, an
\* element of dst is written only by the block that holds its index, holds
\* from then on the value the one-block extraction gives it, and the array
\* returned is the one-block extraction's.
C5_ParallelEqualsOneBlock ==
    (Constructed /\ ext.state # "idle") =>
        LET one == OneBlockExtract(obj, ext.src, ext.T)
        IN  /\ Len(ext.dst) = Len(one)
            /\ \A i \in 1..Len(ext.dst) :
                  /\ ext.dst[i] \in {Uninitialized, one[i]}
                  /\ ext.dst[i] # Uninitialized <=>
                        \E j \in 1..ext.k :
                            ext.ranges[j].begin <= i - 1 /\ i - 1 < ext.next[j]
            /\ ext.state = "done" => ext.dst = one

C5_Witness ==
    /\ Constructed
    /\ ext.state = "done"
    /\ ext.k >= 2
    /\ \A j \in 1..ext.k : ext.ranges[j].begin < ext.ranges[j].end
    /\ args.subsetIndexing.kind = "Indexed"
    /\ ext.dst[1] # ext.dst[Len(ext.dst)]

\* the physical length of the column's backing array
PhysicalLength(o) ==
    IF o.cls = "TArrayValuesHolder" THEN Len(o.SrcData) ELSE o.SrcData.Size

\* C6: GetSize() of a constructed column is the logical length of the subset
\* view it was constructed with, in every state after construction, whatever
\* the physical length of the backing array.
C6_SizeIsSubsetLength ==
    Bound =>
        /\ GetSize(obj) = SubsetSize(args.subsetIndexing)
        /\ ret.op = "GetSize" => ret.res = Ok(SubsetSize(args.subsetIndexing))

C6_Witness ==
    /\ Bound
    /\ ret.op = "GetSize"
    /\ ret.res.val = SubsetSize(args.subsetIndexing)
    /\ ret.res.val < PhysicalLength(obj)
    /\ obj.cls = "TArrayValuesHolder"

\* C7: once a column is constructed, no step of any accessor, alone or
\* interleaved with others, failing or not, changes a field of it.
C7_ReadOnlyAfterConstruction ==
    [][Constructed => (obj' = obj /\ phase' = phase)]_vars

C7_Witness ==
    /\ Bound
    /\ ext.state = "running"
    /\ \E j \in 1..ext.k : ext.next[j] > ext.ranges[j].begin
    /\ ret.op = "GetArrayData<T>"
    /\ ~ret.res.ok

\* C8: a quantized-float column, constructed with a subset view, has at most
\* 8 bits per key.
C8_QuantizedFloatAtMostEightBits ==
    (Bound /\ GetType(obj) = "QuantizedFloat") => GetBitsPerKey(obj) <= 8

\* C9: when the packing is exactly as wide as T, GetArrayData<T>() succeeds
\* and its element at each logical index is the element ExtractValuesT<T>()
\* returned there, the key packed at the position the subset assigns.
C9_RawViewAgreesWithExtraction ==
    (Constructed /\ ext.state = "done"
        /\ SizeofBits(ext.T) = GetBitsPerKey(obj)) =>
        LET r == TCompressedValuesHolderImpl_GetArrayData(obj, ext.T)
        IN  /\ r.ok
            /\ (ret.op = "GetArrayData<T>" /\ ret.T = ext.T) => ret.res = r
            /\ \A i \in 0..(GetSize(obj) - 1) :
                  /\ SubsetAt(obj, r.val, i) = ext.dst[i + 1]
                  /\ SubsetAt(obj, r.val, i) =
                        args.keys[PositionOf(args.subsetIndexing, i) + 1]

C9_Witness ==
    /\ Constructed
    /\ ext.state = "done"
    /\ ext.T = "ui16"
    /\ GetBitsPerKey(obj) = 16
    /\ args.subsetIndexing.kind = "Indexed"
    /\ GetSize(obj) = MaxLen
    /\ ret.op = "GetArrayData<T>"
    /\ ret.T = "ui16"
    /\ ret.res.ok
    /\ SubsetAt(obj, ret.res.val, 0) # SubsetAt(obj, ret.res.val, MaxLen - 1)

Computed == metric # NoMetric
Perfect == FEqual(error[1], error[2]) /\ FEqual(error[3], error[4])

\* (sensitivity + specificity) / 2, each operation rounded, a class whose
\* total is 0 contributing 0
RoundedMean ==
    LET sens == IF error[2].n = 0 THEN Frac(0, 1)
                ELSE RoundNearestEven(error[1].n * error[2].d, error[1].d * error[2].n)
        spec == IF error[4].n = 0 THEN Frac(0, 1)
                ELSE RoundNearestEven(error[3].n * error[4].d, error[3].d * error[4].n)
        sum == RoundNearestEven(sens.n * spec.d + spec.n * sens.d, sens.d * spec.d)
    IN  RoundNearestEven(sum.n, 2 * sum.d)

\* x/y is within one unit in the last place of 1
NearOne(x, y) ==
    x.n * y.d * (2 ^ (MantissaBits - 1)) >= y.n * x.d * ((2 ^ (MantissaBits - 1)) - 1)

\* C10 as stated: the value is a number in [0, 1]; it is 1 exactly when
\* truePositive = targetPositive and trueNegative = targetNegative, and
\* otherwise (sensitivity + specificity) / 2.
C10_OneExactlyWhenPerfect ==
    Computed =>
        /\ IsNumber(metric)
        /\ 0 <= metric.n /\ metric.n <= metric.d
        /\ (metric = FromInt(1)) <=> Perfect
        /\ ~Perfect => metric = RoundedMean

\* C10 as amended: the value is a number in [0, 1], no division by zero
\* takes place, it is 1 when truePositive = targetPositive and
\* trueNegative = targetNegative, and otherwise it is the rounded
\* (sensitivity + specificity) / 2, which is 1 only if one of the two ratios
\* is 1 and the other within one unit in the last place of 1.
C10_InRangeOneWhenPerfect ==
    Computed =>
        /\ IsNumber(metric)
        /\ 0 <= metric.n /\ metric.n <= metric.d
        /\ Perfect => metric = FromInt(1)
        /\ ~Perfect => metric = RoundedMean
        /\ (~Perfect /\ metric = FromInt(1)) =>
              \/ FEqual(error[1], error[2]) /\ NearOne(error[3], error[4])
              \/ FEqual(error[3], error[4]) /\ NearOne(error[1], error[2])

C10_Witness ==
    /\ Computed
    /\ error[2] = FromInt(0)
    /\ error[3] = FromInt(1)
    /\ error[4] = FromInt(2)
    /\ metric = Frac(1, 4)

====
